---- MODULE Spec2Model ----
(***************************************************************************)
(* Model of dashboard.py: one Streamlit script run is a sequence of steps  *)
(* (load, sidebar, filter, KPIs, map, charts, heatmap); a filter change    *)
(* re-runs the script from the top against the cached base data.           *)
(***************************************************************************)
EXTENDS Integers, Sequences, FiniteSets, TLC

\* Largest number of rows of the source file that is explored.
MaxRecords == 2

-----------------------------------------------------------------------------
(* Fixed domains of the script *)

weekday_order ==
  <<"Monday", "Tuesday", "Wednesday", "Thursday", "Friday", "Saturday", "Sunday">>

month_order ==
  <<"Jan", "Feb", "Mar", "Apr", "May", "Jun", "Jul", "Aug", "Sep", "Oct", "Nov", "Dec">>

\* slider min_value / max_value
HourMin == 0
HourMax == 23

\* The four labels np.select can produce, in the order sorted() puts them.
SortedLabels == <<"Fatal", "Minor Injury", "No Injury", "Serious Injury">>

severity_color_map ==
  [l \in {"Fatal", "Serious Injury", "Minor Injury", "No Injury"} |->
     CASE l = "Fatal" -> "darkred"
       [] l = "Serious Injury" -> "red"
       [] l = "Minor Injury" -> "orange"
       [] OTHER -> "lightblue"]

\* pandas' missing value, as reindex() fills it in; counts are never negative.
NaN == -1

-----------------------------------------------------------------------------
(* Helpers *)

Range(s) == {s[i] : i \in DOMAIN s}

\* the non-empty sequences over S of length at most n
SeqsUpTo(S, n) == UNION {[1..k -> S] : k \in 1..n}

MinOf(S) == CHOOSE x \in S : \A y \in S : x <= y

RECURSIVE SetToSortedSeq(_)
SetToSortedSeq(S) ==
  IF S = {} THEN <<>> ELSE <<MinOf(S)>> \o SetToSortedSeq(S \ {MinOf(S)})

RECURSIVE SumSeq(_)
SumSeq(s) == IF s = <<>> THEN 0 ELSE Head(s) + SumSeq(Tail(s))

\* number of rows of d whose column col equals v
CountEq(d, col, v) == Cardinality({i \in DOMAIN d : d[i][col] = v})

Column(d, col) == [i \in DOMAIN d |-> d[i][col]]

-----------------------------------------------------------------------------
(* The source file: rows of data/Road_Accidents_Lisbon.csv *)

Row(f, s, m, wd, mo, h) ==
  [latitude |-> 38, longitude |-> -9, day |-> 1, month |-> mo, weekday |-> wd,
   hour |-> h, fatalities_30d |-> f, serious_injuries_30d |-> s,
   minor_injuries_30d |-> m]

RowPool ==
  { Row(0, 0, 0, "Tuesday", "Mar", 10),
    Row(0, 0, 1, "Tuesday", "Mar", 10),
    Row(0, 1, 1, "Tuesday", "Mar", 8),
    Row(0, 0, 2, "Tuesday", "Mar", 12),
    Row(0, 1, 0, "Tuesday", "Apr", 13),
    Row(1, 0, 5, "Monday", "Jan", 0),
    Row(1, 1, 0, "Sunday", "Dec", 23),
    Row(1, 1, 1, "Monday", "Mar", 8) }

\* the id column numbers the rows of the file
WithIds(rows) == [i \in DOMAIN rows |-> [id |-> i] @@ rows[i]]

Files ==
  { [state |-> "missing", rows |-> <<>>], [state |-> "unparsable", rows |-> <<>>] }
  \cup { [state |-> "ok", rows |-> WithIds(rows)] : rows \in SeqsUpTo(RowPool, MaxRecords) }

-----------------------------------------------------------------------------
(* load_data: feature engineering *)

\* np.select(condlist, choicelist, default): the choice of the first true condition
Select(condlist, choicelist, default) ==
  LET hits == {i \in DOMAIN condlist : condlist[i]}
  IN IF hits = {} THEN default ELSE choicelist[MinOf(hits)]

SeverityMinorFirst(r) ==
  Select(<<r.minor_injuries_30d > 0, r.serious_injuries_30d > 0, r.fatalities_30d > 0>>,
         <<"Minor Injury", "Serious Injury", "Fatal">>, "No Injury")

Severity(r) ==
  Select(<<r.fatalities_30d > 0, r.serious_injuries_30d > 0, r.minor_injuries_30d > 0>>,
         <<"Fatal", "Serious Injury", "Minor Injury">>, "No Injury")

TotalVictims(r) == r.fatalities_30d + r.serious_injuries_30d + r.minor_injuries_30d

\* pd.Categorical(values, categories): a value outside the categories becomes missing
Categorical(v, categories) == IF v \in Range(categories) THEN v ELSE "NaN"

DeriveRow(r) ==
  [severity |-> Severity(r), total_victims |-> TotalVictims(r)]
  @@ [r EXCEPT !.weekday = Categorical(r.weekday, weekday_order),
               !.month = Categorical(r.month, month_order)]

Derive(rows) == [i \in DOMAIN rows |-> DeriveRow(rows[i])]

-----------------------------------------------------------------------------
(* Sidebar *)

\* sorted(df['severity'].unique())
SeverityOptions(d) ==
  SelectSeq(SortedLabels, LAMBDA l : \E i \in DOMAIN d : d[i].severity = l)

\* what a multiselect can return: explored are all, none and each single option
Selections(options) ==
  {Range(options), {}} \cup {{options[i]} : i \in DOMAIN options}

WeekdaySelections(options) ==
  {Range(options)} \cup {{options[i]} : i \in {2} \cap DOMAIN options}

MonthSelections(options) ==
  {Range(options)} \cup {{options[i]} : i \in {3} \cap DOMAIN options}

\* what the slider can return: lo <= hi within [min_value, max_value]; explored are
HourRanges == {r \in {<<0, 23>>, <<8, 12>>, <<8, 8>>} :
                 HourMin <= r[1] /\ r[1] <= r[2] /\ r[2] <= HourMax}

-----------------------------------------------------------------------------
(* Filtering *)

PassesExclusiveEnd(r, c) ==
  /\ r.severity \in c.selected_severity
  /\ r.weekday \in c.selected_weekdays
  /\ r.month \in c.selected_months
  /\ r.hour >= c.hour_range[1]
  /\ r.hour < c.hour_range[2]

Passes(r, c) ==
  /\ r.severity \in c.selected_severity
  /\ r.weekday \in c.selected_weekdays
  /\ r.month \in c.selected_months
  /\ r.hour >= c.hour_range[1]
  /\ r.hour <= c.hour_range[2]

FilterRows(d, c) == SelectSeq(d, LAMBDA r : Passes(r, c))

-----------------------------------------------------------------------------
(* Aggregations *)

KpiOf(d) ==
  [total_accidents |-> Len(d),
   total_fatalities |-> SumSeq(Column(d, "fatalities_30d")),
   total_serious_injuries |-> SumSeq(Column(d, "serious_injuries_30d")),
   total_minor_injuries |-> SumSeq(Column(d, "minor_injuries_30d"))]

\* gpd.GeoDataFrame(df_filtered, geometry=[Point(xy) ...]): a new frame with one more column
GeoDataFrame(d) ==
  [i \in DOMAIN d |-> [geometry |-> <<d[i].longitude, d[i].latitude>>] @@ d[i]]

\* one CircleMarker per row of gdf
Markers(g) ==
  [i \in DOMAIN g |->
     [location |-> <<g[i].latitude, g[i].longitude>>,
      color |-> IF g[i].severity \in DOMAIN severity_color_map
                THEN severity_color_map[g[i].severity] ELSE "gray",
      id |-> g[i].id]]

\* df_filtered['hour'].value_counts().sort_index(): the hours that occur, ascending
HourlyData(d) ==
  LET hs == SetToSortedSeq({d[i].hour : i \in DOMAIN d})
  IN [k \in DOMAIN hs |-> [hour |-> hs[k], count |-> CountEq(d, "hour", hs[k])]]

\* value_counts() of a categorical column: every category, also with count 0
CategoricalCounts(d, col, categories) ==
  [c \in Range(categories) |-> CountEq(d, col, c)]

\* Series.reindex(labels): the labels in the given order, NaN where the label is new
ReindexSeries(series, labels) ==
  [k \in DOMAIN labels |->
     [label |-> labels[k],
      count |-> IF labels[k] \in DOMAIN series THEN series[labels[k]] ELSE NaN]]

WeekdayData(d, options) ==
  ReindexSeries(CategoricalCounts(d, "weekday", weekday_order), options)

\* labels in order of first appearance in the column
RECURSIVE FirstSeen(_)
FirstSeen(col) ==
  IF col = <<>> THEN <<>>
  ELSE LET rest == FirstSeen(SelectSeq(Tail(col), LAMBDA v : v # Head(col)))
       IN <<Head(col)>> \o rest

\* stable sort of labels by descending count
RECURSIVE SortByCount(_, _)
SortByCount(labels, d) ==
  IF labels = <<>> THEN <<>>
  ELSE LET cnt(l) == CountEq(d, "severity", l)
           best == MinOf({i \in DOMAIN labels :
                            \A j \in DOMAIN labels : cnt(labels[j]) <= cnt(labels[i])})
           others == [k \in 1..(Len(labels) - 1) |->
                        IF k < best THEN labels[k] ELSE labels[k + 1]]
       IN <<labels[best]>> \o SortByCount(others, d)

\* df_filtered['severity'].value_counts(): the labels that occur, most frequent first
SeverityData(d) ==
  LET ls == SortByCount(FirstSeen(Column(d, "severity")), d)
  IN [k \in DOMAIN ls |-> [label |-> ls[k], count |-> CountEq(d, "severity", ls[k])]]

\* pivot_table(index='weekday', columns='hour', values='id', aggfunc='count').
\* The rows of a categorical index depend on the default of `observed`, which differs
\* between pandas releases: all categories with zero counts (observed = FALSE), or
\* only the weekdays that occur, with missing cells for absent pairs (observed = TRUE).
PivotTable(d, observed) ==
  LET cols == SetToSortedSeq({d[i].hour : i \in DOMAIN d})
      rows == IF observed
              THEN SelectSeq(weekday_order, LAMBDA w : \E i \in DOMAIN d : d[i].weekday = w)
              ELSE weekday_order
      n(w, h) == Cardinality({i \in DOMAIN d : d[i].weekday = w /\ d[i].hour = h})
  IN [index |-> rows, columns |-> cols,
      cell |-> [w \in Range(rows) |-> [h \in Range(cols) |->
                  IF observed /\ n(w, h) = 0 THEN NaN ELSE n(w, h)]]]

FillNa(t, v) ==
  [t EXCEPT !.cell = [w \in DOMAIN t.cell |-> [h \in DOMAIN t.cell[w] |->
                        IF t.cell[w][h] = NaN THEN v ELSE t.cell[w][h]]]]

\* DataFrame.reindex(labels): rows in the given order, all-NaN rows for new labels
ReindexRows(t, labels) ==
  [t EXCEPT !.index = labels,
            !.cell = [w \in Range(labels) |->
                        IF w \in DOMAIN t.cell THEN t.cell[w]
                        ELSE [h \in Range(t.columns) |-> NaN]]]

HeatmapData(d, options, observed) ==
  ReindexRows(FillNa(PivotTable(d, observed), 0), options)

NoTable == [index |-> <<>>, columns |-> <<>>, cell |-> <<>>]
NoKpi == KpiOf(<<>>)
NoCriteria ==
  [selected_severity |-> {}, hour_range |-> <<HourMin, HourMax>>,
   selected_weekdays |-> {}, selected_months |-> {}]

-----------------------------------------------------------------------------
(* State *)

VARIABLES
  file,              \* the source file on disk
  cache,             \* st.cache_data entry of load_data: <<>> or <<frame>>
  pc,                \* position of the current script run
  ui,                \* status elements shown by the current run, in order
  df,                \* base frame of the current run
  severity_options, weekday_options, month_options,
  criteria,          \* selected_severity, hour_range, selected_weekdays, selected_months
  df_filtered,
  kpi, gdf, markers, hourly_data, weekday_data, severity_data, heatmap_data,
  computed           \* the outputs the current run has produced

vars ==
  <<file, cache, pc, ui, df, severity_options, weekday_options, month_options,
    criteria, df_filtered, kpi, gdf, markers, hourly_data, weekday_data,
    severity_data, heatmap_data, computed>>

sidebarVars == <<severity_options, weekday_options, month_options, criteria>>
outputVars ==
  <<kpi, gdf, markers, hourly_data, weekday_data, severity_data, heatmap_data, computed>>

RunStart ==
  /\ pc = "load"
  /\ ui = <<>>
  /\ df = <<>>
  /\ severity_options = <<>>
  /\ weekday_options = <<>>
  /\ month_options = <<>>
  /\ criteria = NoCriteria
  /\ df_filtered = <<>>
  /\ kpi = NoKpi
  /\ gdf = <<>>
  /\ markers = <<>>
  /\ hourly_data = <<>>
  /\ weekday_data = <<>>
  /\ severity_data = <<>>
  /\ heatmap_data = NoTable
  /\ computed = {}

Init ==
  /\ file \in Files
  /\ cache = <<>>
  /\ RunStart

-----------------------------------------------------------------------------
(* df = load_data() *)

\* a cached result is returned without running the function body
LoadCached ==
  /\ pc = "load"
  /\ cache # <<>>
  /\ df' = cache[1]
  /\ pc' = "sidebar"
  /\ UNCHANGED <<file, cache, ui, sidebarVars, df_filtered, outputVars>>

LoadOk ==
  /\ pc = "load"
  /\ cache = <<>>
  /\ file.state = "ok"
  /\ df' = Derive(file.rows)
  /\ cache' = <<Derive(file.rows)>>
  /\ pc' = "sidebar"
  /\ UNCHANGED <<file, ui, sidebarVars, df_filtered, outputVars>>

LoadMissingContinues ==
  /\ pc = "load"
  /\ cache = <<>>
  /\ file.state = "missing"
  /\ ui' = ui \o <<"error", "info">>
  /\ df' = <<>>
  /\ pc' = "sidebar"
  /\ UNCHANGED <<file, cache, sidebarVars, df_filtered, outputVars>>

\* FileNotFoundError: st.error, st.info, st.stop
LoadMissing ==
  /\ pc = "load"
  /\ cache = <<>>
  /\ file.state = "missing"
  /\ ui' = ui \o <<"error", "info">>
  /\ pc' = "stopped"
  /\ UNCHANGED <<file, cache, df, sidebarVars, df_filtered, outputVars>>

\* any other failure of read_csv is not caught: the run ends with the exception shown
LoadUnparsable ==
  /\ pc = "load"
  /\ cache = <<>>
  /\ file.state = "unparsable"
  /\ ui' = ui \o <<"exception">>
  /\ pc' = "crashed"
  /\ UNCHANGED <<file, cache, df, sidebarVars, df_filtered, outputVars>>

-----------------------------------------------------------------------------
(* Sidebar widgets *)

Sidebar ==
  /\ pc = "sidebar"
  /\ severity_options' = SeverityOptions(df)
  /\ weekday_options' = weekday_order
  /\ month_options' = month_order
  /\ \E sev \in Selections(SeverityOptions(df)), hr \in HourRanges,
        wd \in WeekdaySelections(weekday_order), mo \in MonthSelections(month_order) :
       criteria' = [selected_severity |-> sev, hour_range |-> hr,
                    selected_weekdays |-> wd, selected_months |-> mo]
  /\ pc' = "filter"
  /\ UNCHANGED <<file, cache, ui, df, df_filtered, outputVars>>

-----------------------------------------------------------------------------
(* df_filtered and the empty check *)

ApplyFiltersNoStop ==
  /\ pc = "filter"
  /\ df_filtered' = FilterRows(df, criteria)
  /\ pc' = "kpi"
  /\ UNCHANGED <<file, cache, ui, df, sidebarVars, outputVars>>

ApplyFiltersInPlace ==
  /\ pc = "filter"
  /\ df_filtered' = FilterRows(df, criteria)
  /\ df' = FilterRows(df, criteria)
  /\ IF FilterRows(df, criteria) = <<>>
     THEN ui' = ui \o <<"warning">> /\ pc' = "stopped"
     ELSE ui' = ui /\ pc' = "kpi"
  /\ UNCHANGED <<file, cache, sidebarVars, outputVars>>

ApplyFilters ==
  /\ pc = "filter"
  /\ df_filtered' = FilterRows(df, criteria)
  /\ IF FilterRows(df, criteria) = <<>>
     THEN ui' = ui \o <<"warning">> /\ pc' = "stopped"
     ELSE ui' = ui /\ pc' = "kpi"
  /\ UNCHANGED <<file, cache, df, sidebarVars, outputVars>>

-----------------------------------------------------------------------------
(* Outputs *)

KpiFromBase ==
  /\ pc = "kpi"
  /\ kpi' = KpiOf(df)
  /\ computed' = computed \cup {"kpi"}
  /\ pc' = "map"
  /\ UNCHANGED <<file, cache, ui, df, sidebarVars, df_filtered, gdf, markers,
                 hourly_data, weekday_data, severity_data, heatmap_data>>

Kpi ==
  /\ pc = "kpi"
  /\ kpi' = KpiOf(df_filtered)
  /\ computed' = computed \cup {"kpi"}
  /\ pc' = "map"
  /\ UNCHANGED <<file, cache, ui, df, sidebarVars, df_filtered, gdf, markers,
                 hourly_data, weekday_data, severity_data, heatmap_data>>

Map ==
  /\ pc = "map"
  /\ gdf' = GeoDataFrame(df_filtered)
  /\ markers' = Markers(GeoDataFrame(df_filtered))
  /\ computed' = computed \cup {"map"}
  /\ pc' = "charts"
  /\ UNCHANGED <<file, cache, ui, df, sidebarVars, df_filtered, kpi,
                 hourly_data, weekday_data, severity_data, heatmap_data>>

Charts ==
  /\ pc = "charts"
  /\ hourly_data' = HourlyData(df_filtered)
  /\ weekday_data' = WeekdayData(df_filtered, weekday_options)
  /\ severity_data' = SeverityData(df_filtered)
  /\ computed' = computed \cup {"hourly", "weekday", "severity"}
  /\ pc' = "heatmap"
  /\ UNCHANGED <<file, cache, ui, df, sidebarVars, df_filtered, kpi, gdf, markers,
                 heatmap_data>>

Heatmap ==
  /\ pc = "heatmap"
  /\ \E observed \in BOOLEAN :
       heatmap_data' = HeatmapData(df_filtered, weekday_options, observed)
  /\ computed' = computed \cup {"heatmap"}
  /\ pc' = "done"
  /\ UNCHANGED <<file, cache, ui, df, sidebarVars, df_filtered, kpi, gdf, markers,
                 hourly_data, weekday_data, severity_data>>

\* a widget change (or a reload) runs the script again from the top
Rerun ==
  /\ pc \in {"done", "stopped", "crashed"}
  /\ pc' = "load"
  /\ ui' = <<>>
  /\ df' = <<>>
  /\ severity_options' = <<>>
  /\ weekday_options' = <<>>
  /\ month_options' = <<>>
  /\ criteria' = NoCriteria
  /\ df_filtered' = <<>>
  /\ kpi' = NoKpi
  /\ gdf' = <<>>
  /\ markers' = <<>>
  /\ hourly_data' = <<>>
  /\ weekday_data' = <<>>
  /\ severity_data' = <<>>
  /\ heatmap_data' = NoTable
  /\ computed' = {}
  /\ UNCHANGED <<file, cache>>

Next ==
  \/ LoadCached
  \/ LoadOk
  \/ LoadMissing
  \/ LoadUnparsable
  \/ Sidebar
  \/ ApplyFilters
  \/ Kpi
  \/ Map
  \/ Charts
  \/ Heatmap
  \/ Rerun

Spec == Init /\ [][Next]_vars

-----------------------------------------------------------------------------
(* The filter expression taken on its own: criteria handed in by any caller,  *)
(* not only the values the sidebar widgets can return.                        *)

CallerSeverities ==
  { Range(SortedLabels), {"Minor Injury"}, {"Fatal", "Critical"} }

CallerHourRanges == { <<0, 23>>, <<8, 12>>, <<0, 24>>, <<-1, 23>> }

CallerWeekdays ==
  { Range(weekday_order), {"Tuesday"}, Range(weekday_order) \cup {"Holiday"} }

CallerMonths == { Range(month_order), {"Mar", "Smarch"} }

CallerCriteria ==
  /\ pc = "sidebar"
  /\ severity_options' = SeverityOptions(df)
  /\ weekday_options' = weekday_order
  /\ month_options' = month_order
  /\ \E sev \in CallerSeverities, hr \in CallerHourRanges,
        wd \in CallerWeekdays, mo \in CallerMonths :
       criteria' = [selected_severity |-> sev, hour_range |-> hr,
                    selected_weekdays |-> wd, selected_months |-> mo]
  /\ pc' = "filter"
  /\ UNCHANGED <<file, cache, ui, df, df_filtered, outputVars>>

NextCaller ==
  \/ LoadCached
  \/ LoadOk
  \/ LoadMissing
  \/ LoadUnparsable
  \/ CallerCriteria
  \/ ApplyFilters
  \/ Kpi
  \/ Map
  \/ Charts
  \/ Heatmap
  \/ Rerun

SpecCaller == Init /\ [][NextCaller]_vars

-----------------------------------------------------------------------------
(* Properties *)

SeverityLabels == {"Fatal", "Serious Injury", "Minor Injury", "No Injury"}

AllHours == [k \in 1..(HourMax - HourMin + 1) |-> HourMin + k - 1]

\* the current run has its base frame
Loaded ==
  \/ pc \in {"sidebar", "filter", "kpi", "map", "charts", "heatmap", "done"}
  \/ pc = "stopped" /\ ui = <<"warning">>

\* the current run has evaluated the filter expression
Filtered ==
  \/ pc \in {"kpi", "map", "charts", "heatmap", "done"}
  \/ pc = "stopped" /\ ui = <<"warning">>

InDomain(c) ==
  /\ c.selected_severity \subseteq SeverityLabels
  /\ c.selected_weekdays \subseteq Range(weekday_order)
  /\ c.selected_months \subseteq Range(month_order)
  /\ HourMin <= c.hour_range[1]
  /\ c.hour_range[2] <= HourMax

\* sum of the non-missing cells of a cross-tabulation
GrandTotal(t) ==
  SumSeq([k \in DOMAIN t.index |->
            SumSeq([j \in DOMAIN t.columns |->
                      IF t.cell[t.index[k]][t.columns[j]] = NaN THEN 0
                      ELSE t.cell[t.index[k]][t.columns[j]]])])

\* C1: every record of the base frame carries exactly one of the four severity
\* labels, decided by priority: Fatal iff fatalities_30d > 0; Serious Injury iff no
\* fatality and serious_injuries_30d > 0; Minor Injury iff neither and
\* minor_injuries_30d > 0; No Injury iff none of the three counts is positive.
C1_SeverityPriority ==
  Loaded =>
    \A i \in DOMAIN df :
      LET r == df[i]
          f == r.fatalities_30d > 0
          s == r.serious_injuries_30d > 0
          m == r.minor_injuries_30d > 0
      IN /\ r.severity \in SeverityLabels
         /\ (r.severity = "Fatal") <=> f
         /\ (r.severity = "Serious Injury") <=> (~f /\ s)
         /\ (r.severity = "Minor Injury") <=> (~f /\ ~s /\ m)
         /\ (r.severity = "No Injury") <=> (~f /\ ~s /\ ~m)

\* a loaded record with one fatality and five minor injuries is Fatal
C1_Witness ==
  /\ Loaded
  /\ \E i \in DOMAIN df :
       /\ df[i].fatalities_30d = 1
       /\ df[i].minor_injuries_30d = 5
       /\ df[i].severity = "Fatal"

\* C2: once the filter has been applied, df_filtered holds exactly the base records
\* whose severity, weekday and month are selected and whose hour lies in
\* [hour_range[1], hour_range[2]] (both ends included), each once, in base order.
C2_FilterExact ==
  Filtered =>
    /\ \A i \in DOMAIN df :
         (\E k \in DOMAIN df_filtered : df_filtered[k] = df[i])
           <=> /\ df[i].severity \in criteria.selected_severity
               /\ df[i].weekday \in criteria.selected_weekdays
               /\ df[i].month \in criteria.selected_months
               /\ criteria.hour_range[1] <= df[i].hour
               /\ df[i].hour <= criteria.hour_range[2]
    /\ \A k \in DOMAIN df_filtered : df_filtered[k] \in Range(df)
    /\ \A j, k \in DOMAIN df_filtered : j < k => df_filtered[j].id < df_filtered[k].id

\* a proper range keeps a record at its upper end while another record is dropped
C2_Witness ==
  /\ Filtered
  /\ criteria.hour_range[1] < criteria.hour_range[2]
  /\ Len(df) = 2
  /\ Len(df_filtered) = 1
  /\ df_filtered[1].hour = criteria.hour_range[2]

\* C3: when the filter selects no record the run stops with a warning (and nothing
\* else) and has computed no output; every output that is computed is computed
\* over a non-empty df_filtered.
C3_EmptyStops ==
  /\ (Filtered /\ df_filtered = <<>>) =>
       /\ pc = "stopped"
       /\ ui = <<"warning">>
       /\ computed = {}
  /\ computed # {} => df_filtered # <<>>

\* a non-empty base frame filtered down to nothing
C3_Witness ==
  /\ pc = "stopped"
  /\ ui = <<"warning">>
  /\ df # <<>>
  /\ df_filtered = <<>>

\* C4: the hourly counts, the weekday counts and the cells of the weekday-by-hour
\* table each add up to the number of filtered records, which is the KPI count.
C4_TotalsAgree ==
  /\ "kpi" \in computed => kpi.total_accidents = Len(df_filtered)
  /\ "hourly" \in computed =>
       SumSeq([k \in DOMAIN hourly_data |-> hourly_data[k].count]) = Len(df_filtered)
  /\ "weekday" \in computed =>
       SumSeq([k \in DOMAIN weekday_data |-> weekday_data[k].count]) = Len(df_filtered)
  /\ "heatmap" \in computed => GrandTotal(heatmap_data) = Len(df_filtered)

\* all outputs computed over a proper subset, the table holding missing cells
C4_Witness ==
  /\ pc = "done"
  /\ Len(df_filtered) < Len(df)
  /\ kpi.total_accidents = Len(df_filtered)
  /\ \E w \in DOMAIN heatmap_data.cell : \E h \in DOMAIN heatmap_data.cell[w] :
       heatmap_data.cell[w][h] = NaN

\* C5: the hourly distribution lists all 24 hours 0..23 in ascending order, with
\* count 0 for an hour without a record.
C5_HourlyDense ==
  "hourly" \in computed =>
    /\ Len(hourly_data) = Len(AllHours)
    /\ \A k \in DOMAIN AllHours :
         /\ hourly_data[k].hour = AllHours[k]
         /\ hourly_data[k].count = CountEq(df_filtered, "hour", AllHours[k])

\* C6: the cross-tabulation has the 7 weekday rows in order and the 24 hour columns,
\* and every cell is the count of records with that weekday and hour (0 if none).
C6_CrossTabDense ==
  "heatmap" \in computed =>
    /\ heatmap_data.index = weekday_order
    /\ heatmap_data.columns = AllHours
    /\ \A w \in Range(weekday_order) : \A h \in Range(AllHours) :
         heatmap_data.cell[w][h] =
           Cardinality({i \in DOMAIN df_filtered :
                          df_filtered[i].weekday = w /\ df_filtered[i].hour = h})

\* C7: the options offered by the selectors are the fixed domains, whatever the
\* data: the 4 severity labels, the 7 weekdays, the 12 months (and hours 0..23).
C7_FixedOptionDomains ==
  pc \in {"filter", "kpi", "map", "charts", "heatmap", "done"} =>
    /\ Range(severity_options) = SeverityLabels
    /\ weekday_options = weekday_order
    /\ month_options = month_order
    /\ HourRanges \subseteq (Range(AllHours) \X Range(AllHours))

C9_FailedLoadHalts ==
  file.state # "ok" =>
    /\ pc \in {"load", "stopped", "crashed"}
    /\ pc # "load" => ui \in { <<"error", "info">>, <<"exception">> }
    /\ cache = <<>>
    /\ df = <<>>
    /\ severity_options = <<>>
    /\ df_filtered = <<>>
    /\ computed = {}

\* the run has stopped on the missing file
C9_Witness ==
  /\ file.state = "missing"
  /\ pc = "stopped"
  /\ ui = <<"error", "info">>

\* C10: once cached, the base frame never changes; within a run no step after the
\* load changes df, every run works on the cached frame, and the filtered subset
\* is determined by the cached frame and the criteria alone.
C10_BaseImmutable ==
  [][ /\ cache # <<>> => cache' = cache
      /\ (Loaded /\ pc' # "load") => df' = df
      /\ Loaded' => (cache' # <<>> /\ df' = cache'[1])
      /\ Filtered' =>
           \A i \in DOMAIN cache'[1] :
             (\E k \in DOMAIN df_filtered' : df_filtered'[k] = cache'[1][i])
               <=> Passes(cache'[1][i], criteria') ]_vars

\* a later run starts with the base frame of an earlier run in the cache
C10_Witness ==
  /\ pc = "load"
  /\ cache # <<>>
  /\ Len(cache[1]) >= 2

====
